---- MODULE Spec2Model ----
(***************************************************************************)
(* DBusRegistrar (com.canonical.AppMenu.Registrar): the session-bus         *)
(* ownership lifecycle, the window registry and the exported method        *)
(* surface, as one state machine.  The GLib/Gio main loop is the           *)
(* environment: it delivers the bus callbacks, runs the heartbeat timer    *)
(* and dispatches method calls to the exported object.                     *)
(***************************************************************************)
EXTENDS Integers, Sequences, FiniteSets, TLC

\* ------------------------------------------------------------------ bounds
MaxWindowId == 2      \* window ids 1..MaxWindowId
MaxOwners == 2        \* Gio.bus_own_name calls in one run
MaxSources == 2       \* GLib.timeout_add_seconds calls in one run

WindowIds == 1..MaxWindowId
OwnerIds == 1..MaxOwners
Paths == {"/a", "/b"}
QueryOutcomes == {"items", "empty", "fail"}
LogTypes == {"INFO", "ERROR"}

VARIABLES
    bus_id,          \* _bus_id: what Gio.bus_own_name returned last, 0 at start
    service_id,      \* _service_id: what GLib.timeout_add_seconds returned last
    window_map,      \* _window_map: JS Map, a sequence of entries in insertion order
    exported,        \* whether _dbus is exported on the session bus
    names,           \* GDBus: the state of each bus_own_name registration, by id
    timers,          \* GLib: source ids of the timeouts still scheduled
    next_owner,      \* GDBus: the id the next bus_own_name returns
    next_source,     \* GLib: the id the next timeout_add_seconds returns
    last,            \* what the last operation did, as a caller or a monitor sees it
    registered_ids,  \* history: ids given to a RegisterWindow that returned normally
                     \* and not given to UnregisterWindow since
    ever_acquired,   \* history: acquire_bus has been called
    since_release,   \* history: release_bus ran and name-acquired has not fired since
    beats            \* history: parity of the number of heartbeat emissions

vars == <<bus_id, service_id, window_map, exported, names, timers, next_owner,
          next_source, last, registered_ids, ever_acquired, since_release, beats>>

busVars == <<bus_id, service_id, exported, names, timers, next_owner, next_source>>
histVars == <<registered_ids, ever_acquired, since_release, beats>>

\* ------------------------------------------------------- the JS Map helpers
\* An entry of _window_map: key window_id, value {window_id, menu_object_path}.
Entries == [window_id : WindowIds, menu_object_path : Paths]

MapHas(m, k) == \E i \in 1..Len(m) : m[i].window_id = k

MapGet(m, k) == (CHOOSE i \in 1..Len(m) : m[i].window_id = k)

MapPath(m, k) == IF MapHas(m, k) THEN m[MapGet(m, k)].menu_object_path ELSE ""

MapDelete(m, k) == SelectSeq(m, LAMBDA e : e.window_id # k)

MapKeys(m) == [i \in 1..Len(m) |-> m[i].window_id]

\* Every value the Map type admits over the bounded ids: distinct keys, any order.
AllMaps ==
    {m \in UNION {[1..n -> Entries] : n \in 0..MaxWindowId} :
        \A i, j \in 1..Len(m) : m[i].window_id = m[j].window_id => i = j}

\* ------------------------------------------------------------ observations
\* op: the operation; window_id, path: its arguments; ret: what it returned (or the
\* payload it emitted); warns: Logger.warn calls; fault: it threw; stale: cancellations
\* of an id GLib/GDBus no longer holds; emitted: the signal given to emit_signal;
\* before: _window_map when it was called; known: window_id was in registered_ids.
Obs(op, id, path, ret, warns, fault, stale, emitted, before, known) ==
    [op |-> op, window_id |-> id, path |-> path, ret |-> ret, warns |-> warns,
     fault |-> fault, stale |-> stale, emitted |-> emitted, before |-> before,
     known |-> known]

LifecycleObs(op, warns, stale) ==
    Obs(op, 0, "", <<>>, warns, FALSE, stale, "none", window_map, FALSE)

is_acquired == bus_id > 0 /\ service_id > 0

Owned == \E o \in OwnerIds : names[o] = "owned"

Init ==
    /\ bus_id = 0
    /\ service_id = 0
    /\ window_map = <<>>
    /\ exported = FALSE
    /\ names = [o \in OwnerIds |-> "none"]
    /\ timers = {}
    /\ next_owner = 1
    /\ next_source = 1
    /\ last = Obs("init", 0, "", <<>>, 0, FALSE, 0, "none", <<>>, FALSE)
    /\ registered_ids = {}
    /\ ever_acquired = FALSE
    /\ since_release = FALSE
    /\ beats = 0

\* ------------------------------------------------------ the method surface
\* Methods are reached through the exported object only (wrapJSObject + export).

\* RegisterWindow: logs, warns if the id is present, runs the menu-model query
\* (q is how it ends: items found, none found, or an exception) and returns.
\* Nothing in its body writes _window_map, and nothing catches the query's exception.
RegisterWindowWarns(m, window_id) == IF MapHas(m, window_id) THEN 1 ELSE 0

RegisterWindowMap(m, window_id, menu_object_path) == m

RegisterWindow(window_id, menu_object_path, q) ==
    /\ exported
    /\ window_map' = RegisterWindowMap(window_map, window_id, menu_object_path)
    /\ last' = Obs("RegisterWindow", window_id, menu_object_path, <<>>,
                   RegisterWindowWarns(window_map, window_id), q = "fail", 0, "none",
                   window_map, window_id \in registered_ids)
    /\ registered_ids' = IF q = "fail" THEN registered_ids
                         ELSE registered_ids \cup {window_id}
    /\ UNCHANGED <<busVars, ever_acquired, since_release, beats>>

\* As UnregisterWindowWarns with the guard of line 265 inverted.
UnregisterWindowWarnsInverted(m, window_id) == IF MapHas(m, window_id) THEN 1 ELSE 0

UnregisterWindowWarns(m, window_id) == IF ~MapHas(m, window_id) THEN 1 ELSE 0

\* As UnregisterWindowMap with clear() in place of delete(window_id).
UnregisterWindowMapClears(m, window_id) ==
    IF ~MapHas(m, window_id) THEN m ELSE <<>>

UnregisterWindowMap(m, window_id) ==
    IF ~MapHas(m, window_id) THEN m ELSE MapDelete(m, window_id)

UnregisterWindow(window_id) ==
    /\ exported
    /\ window_map' = UnregisterWindowMap(window_map, window_id)
    /\ last' = Obs("UnregisterWindow", window_id, "", <<>>,
                   UnregisterWindowWarns(window_map, window_id), FALSE, 0, "none",
                   window_map, window_id \in registered_ids)
    /\ registered_ids' = registered_ids \ {window_id}
    /\ UNCHANGED <<busVars, ever_acquired, since_release, beats>>

\* As GetMenuForWindowResult with the lookup the interface documents.
GetMenuForWindowLooksUp(m, window_id) == <<"", MapPath(m, window_id)>>

GetMenuForWindowResult(m, window_id) == <<"", "">>

GetMenuForWindow(window_id) ==
    /\ exported
    /\ last' = Obs("GetMenuForWindow", window_id, "",
                   GetMenuForWindowResult(window_map, window_id), 0, FALSE, 0, "none",
                   window_map, window_id \in registered_ids)
    /\ UNCHANGED <<busVars, window_map, histVars>>

GetWindowListResult(m) == MapKeys(m)

GetWindowList ==
    /\ exported
    /\ last' = Obs("GetWindowList", 0, "", GetWindowListResult(window_map), 0, FALSE,
                   0, "none", window_map, FALSE)
    /\ UNCHANGED <<busVars, window_map, histVars>>

\* ------------------------------------------------------------ bus lifecycle
\* As ReleaseTimers without the source_remove call.
ReleaseTimersKeeps(ts, sid) == ts

\* release_bus line 151: remove the timeout _service_id names, if it names one.
ReleaseTimers(ts, sid) == IF sid > 0 THEN ts \ {sid} ELSE ts

\* As ReleaseNames without the bus_unown_name call.
ReleaseNamesKeeps(ns, bid) == ns

\* release_bus line 152: unown the registration _bus_id names, if it names one.
ReleaseNames(ns, bid) == IF bid > 0 THEN [ns EXCEPT ![bid] = "none"] ELSE ns

\* How many of those two calls name an id that is no longer held.
StaleTimer(ts, sid) == IF sid > 0 /\ sid \notin ts THEN 1 ELSE 0
StaleName(ns, bid) == IF bid > 0 /\ ns[bid] = "none" THEN 1 ELSE 0

\* As ReleaseBusId with the name identifier reset and the timer identifier forgotten.
ReleaseBusIdZeroed(bid) == 0

\* release_bus assigns neither _bus_id nor _service_id.
ReleaseBusId(bid) == bid
ReleaseServiceId(sid) == sid

\* As ReleaseExport without the unexport call.
ReleaseExportKeeps(e) == e

\* release_bus line 153: _dbus is always set, so the object is unexported.
ReleaseExport(e) == FALSE

\* As release_bus, also discarding the registry.
release_bus_clears_registry ==
    /\ timers' = ReleaseTimers(timers, service_id)
    /\ names' = ReleaseNames(names, bus_id)
    /\ exported' = ReleaseExport(exported)
    /\ bus_id' = ReleaseBusId(bus_id)
    /\ service_id' = ReleaseServiceId(service_id)
    /\ since_release' = TRUE
    /\ window_map' = <<>>
    /\ last' = LifecycleObs("release_bus", 1,
                            StaleTimer(timers, service_id) + StaleName(names, bus_id))
    /\ UNCHANGED <<next_owner, next_source, registered_ids, ever_acquired, beats>>

release_bus ==
    /\ timers' = ReleaseTimers(timers, service_id)
    /\ names' = ReleaseNames(names, bus_id)
    /\ exported' = ReleaseExport(exported)
    /\ bus_id' = ReleaseBusId(bus_id)
    /\ service_id' = ReleaseServiceId(service_id)
    /\ since_release' = TRUE
    /\ last' = LifecycleObs("release_bus", 1,
                            StaleTimer(timers, service_id) + StaleName(names, bus_id))
    /\ UNCHANGED <<window_map, next_owner, next_source, registered_ids,
                   ever_acquired, beats>>

\* acquire_bus: release_bus, then bus_own_name; the callbacks come later.
acquire_bus ==
    /\ next_owner <= MaxOwners
    /\ timers' = ReleaseTimers(timers, service_id)
    /\ names' = [ReleaseNames(names, bus_id) EXCEPT ![next_owner] = "pending"]
    /\ exported' = ReleaseExport(exported)
    /\ bus_id' = next_owner
    /\ service_id' = ReleaseServiceId(service_id)
    /\ next_owner' = next_owner + 1
    /\ since_release' = TRUE
    /\ ever_acquired' = TRUE
    /\ last' = LifecycleObs("acquire_bus", 1,
                            StaleTimer(timers, service_id) + StaleName(names, bus_id))
    /\ UNCHANGED <<window_map, next_source, registered_ids, beats>>

\* The connection to the session bus is there: export the object.
on_bus_acquired(o) ==
    /\ names[o] = "pending"
    /\ names' = [names EXCEPT ![o] = "connected"]
    /\ exported' = TRUE
    /\ last' = LifecycleObs("on_bus_acquired", 0, 0)
    /\ UNCHANGED <<bus_id, service_id, timers, next_owner, next_source, window_map,
                   histVars>>

\* The name is ours (at once, or later from the queue): schedule the heartbeat.
on_name_acquired(o) ==
    /\ names[o] \in {"connected", "lost"}
    /\ next_source <= MaxSources
    /\ names' = [names EXCEPT ![o] = "owned"]
    /\ service_id' = next_source
    /\ timers' = timers \cup {next_source}
    /\ next_source' = next_source + 1
    /\ since_release' = FALSE
    /\ last' = LifecycleObs("on_name_acquired", 0, 0)
    /\ UNCHANGED <<bus_id, exported, next_owner, window_map, registered_ids,
                   ever_acquired, beats>>

\* As NameLostServiceId without the reset of line 137.
NameLostServiceIdKept(sid) == sid

\* on_name_lost line 137: the timer identifier goes back to zero.
NameLostServiceId(sid) == 0

\* The name is lost, or could not be had (no connection: "failed").
on_name_lost(o) ==
    /\ names[o] \in {"pending", "connected", "owned"}
    /\ names' = [names EXCEPT ![o] = IF names[o] = "pending" THEN "failed" ELSE "lost"]
    /\ timers' = ReleaseTimers(timers, service_id)
    /\ service_id' = NameLostServiceId(service_id)
    /\ last' = LifecycleObs("on_name_lost", 0, StaleTimer(timers, service_id))
    /\ UNCHANGED <<bus_id, exported, next_owner, next_source, window_map, histVars>>

\* As TimerCallbackReturn with the other GLib constant.
TimerCallbackReturnsRemove == "SOURCE_REMOVE"

\* The timeout callback: emmit_service_started, then its return value.
TimerCallbackReturn == "SOURCE_CONTINUE"

TimersAfterCallback(ts, t) ==
    IF TimerCallbackReturn = "SOURCE_CONTINUE" THEN ts ELSE ts \ {t}

heartbeat(t) ==
    /\ t \in timers
    /\ timers' = TimersAfterCallback(timers, t)
    /\ beats' = 1 - beats
    /\ last' = Obs("heartbeat", 0, "", <<"GGGM Service running">>, 0, FALSE, 0,
                   "service_running", window_map, FALSE)
    /\ UNCHANGED <<bus_id, service_id, exported, names, next_owner, next_source,
                   window_map, registered_ids, ever_acquired, since_release>>

\* As DbusLogEmits without the guard of line 191.
DbusLogEmitsUnguarded == "Log"

\* dbus_log: the Log signal, while is_acquired().
DbusLogEmits == IF ~is_acquired THEN "none" ELSE "Log"

dbus_log(type) ==
    /\ last' = Obs("dbus_log", 0, "", IF DbusLogEmits = "Log" THEN <<type>> ELSE <<>>,
                   0, FALSE, 0, DbusLogEmits, window_map, FALSE)
    /\ UNCHANGED <<busVars, window_map, histVars>>

Next ==
    \/ \E w \in WindowIds, p \in Paths, q \in QueryOutcomes : RegisterWindow(w, p, q)
    \/ \E w \in WindowIds : UnregisterWindow(w)
    \/ \E w \in WindowIds : GetMenuForWindow(w)
    \/ GetWindowList
    \/ acquire_bus
    \/ release_bus
    \/ \E o \in OwnerIds : on_bus_acquired(o)
    \/ \E o \in OwnerIds : on_name_acquired(o)
    \/ \E o \in OwnerIds : on_name_lost(o)
    \/ \E t \in timers : heartbeat(t)
    \/ \E type \in LogTypes : dbus_log(type)

Spec == Init /\ [][Next]_vars

\* The method contracts over every registry content: the same operations, started
\* from any value of _window_map (the program itself never fills the map, see C1).
InitMethods ==
    /\ bus_id = 0
    /\ service_id = 0
    /\ window_map \in AllMaps
    /\ exported = FALSE
    /\ names = [o \in OwnerIds |-> "none"]
    /\ timers = {}
    /\ next_owner = 1
    /\ next_source = 1
    /\ last = Obs("init", 0, "", <<>>, 0, FALSE, 0, "none", window_map, FALSE)
    /\ registered_ids = {window_map[i].window_id : i \in 1..Len(window_map)}
    /\ ever_acquired = FALSE
    /\ since_release = FALSE
    /\ beats = 0

SpecMethods == InitMethods /\ [][Next]_vars

\* The main loop (main.run()) runs a scheduled timeout again and again.
FairSpec == Spec /\ WF_vars(\E t \in timers : heartbeat(t))

\* ------------------------------------------------------------------ claims
Occurrences(seq, x) == Cardinality({i \in 1..Len(seq) : seq[i] = x})

\* C1: after RegisterWindow(id, path) returns, GetWindowList() contains id exactly
\* once.
C1_RegisteredIdListedOnce ==
    (last.op = "RegisterWindow" /\ ~last.fault)
        => Occurrences(GetWindowListResult(window_map), last.window_id) = 1

\* C2: re-registering an id that was registered before completes without a fault,
\* logs exactly one warning and leaves the registry mapping the id to the new path,
\* and to that path only.
C2_ReRegisterLastWriteWins ==
    (last.op = "RegisterWindow" /\ last.known)
        => /\ ~last.fault
           /\ last.warns = 1
           /\ Occurrences(MapKeys(window_map), last.window_id) = 1
           /\ MapPath(window_map, last.window_id) = last.path

\* C3: however the menu-model query inside RegisterWindow ends (items, no items,
\* failure), RegisterWindow returns normally and the registry holds id -> path.
C3_QueryDoesNotAffectRegistration ==
    last.op = "RegisterWindow"
        => /\ ~last.fault
           /\ MapHas(window_map, last.window_id)
           /\ MapPath(window_map, last.window_id) = last.path

\* C4: UnregisterWindow(id) for an id that is not in the registry leaves the
\* registry unchanged, logs one warning and raises no fault.
C4_UnregisterUnknownIsNoOp ==
    (last.op = "UnregisterWindow" /\ ~MapHas(last.before, last.window_id))
        => /\ window_map = last.before
           /\ last.warns = 1
           /\ ~last.fault

C4_Witness ==
    /\ last.op = "UnregisterWindow"
    /\ ~MapHas(last.before, last.window_id)

\* C5: UnregisterWindow(id) for an id in the registry removes that entry and no
\* other: every other id keeps the path it had, in the order it had.
C5_UnregisterRemovesExactlyThat ==
    (last.op = "UnregisterWindow" /\ MapHas(last.before, last.window_id))
        => /\ ~MapHas(window_map, last.window_id)
           /\ \A w \in WindowIds \ {last.window_id} :
                /\ MapHas(window_map, w) = MapHas(last.before, w)
                /\ MapPath(window_map, w) = MapPath(last.before, w)
           /\ Len(window_map) = Len(last.before) - 1

C5_Witness ==
    /\ last.op = "UnregisterWindow"
    /\ MapHas(last.before, last.window_id)
    /\ Len(last.before) = 2
    /\ Len(window_map) = 1

C7_IsAcquiredFollowsLifecycle ==
    /\ ~ever_acquired => ~is_acquired
    /\ last.op = "release_bus" => ~is_acquired
    /\ is_acquired => names[bus_id] \notin {"pending", "connected"}

\* C8: release() from any lifecycle state raises no error and leaves the state fully
\* released: both identifiers zero, the object not exported, and no cancellation
\* aimed at something that is not held.
C8_ReleaseLeavesFullyReleased ==
    last.op = "release_bus"
        => /\ ~last.fault
           /\ bus_id = 0
           /\ service_id = 0
           /\ ~exported
           /\ last.stale = 0

\* C9: between a release() and the next name-acquired callback no heartbeat is
\* emitted: no timeout is left scheduled, and no emission is seen.
C9_NoHeartbeatAfterRelease ==
    /\ since_release => timers = {}
    /\ last.op = "heartbeat" => ~since_release

C9_Witness ==
    /\ last.op = "heartbeat"
    /\ bus_id = 2
    /\ service_id = 2

\* C10: once name-acquired has fired the heartbeat is emitted, and it is emitted
\* again and again for as long as the name is neither lost nor released.
C10_HeartbeatKeepsFiring ==
    /\ [](last.op = "on_name_acquired" => <>(last.op = "heartbeat" \/ ~Owned))
    /\ (<>[]Owned => []<><<\E t \in timers : heartbeat(t)>>_vars)

C10_Witness ==
    /\ last.op = "heartbeat"
    /\ Owned
    /\ beats = 0

\* C11: in every reachable state the heartbeat-timer identifier is non-zero only if
\* the name-ownership identifier is non-zero.
C11_TimerIdOnlyWithBusId ==
    service_id > 0 => bus_id > 0

C11_Witness ==
    /\ service_id > 0
    /\ bus_id > 0
    /\ last.op = "release_bus"

\* C12: whenever is_acquired() is true the name is owned and a heartbeat timeout is
\* scheduled; it is not true while the request is pending or after ownership ended.
C12_IsAcquiredMeansLive ==
    is_acquired => (names[bus_id] = "owned" /\ service_id \in timers)

\* C13: on name-lost the heartbeat timeout is cancelled if one is scheduled, the
\* timer identifier becomes zero, and no ownership request is issued by that step.
C13_NameLostCancelsAndStays ==
    /\ [](last.op = "on_name_lost" => (service_id = 0 /\ timers = {}))
    /\ [][last'.op = "on_name_lost"
            => /\ next_owner' = next_owner
               /\ bus_id' = bus_id
               /\ \A o \in OwnerIds : names'[o] # "pending"]_vars
    /\ [][next_owner' # next_owner => last'.op = "acquire_bus"]_vars

C13_Witness ==
    /\ last.op = "on_name_lost"
    /\ bus_id = 1
    /\ names[1] = "lost"
    /\ next_source = 2
    /\ timers = {}

C15_LogOnlyWhileAcquired ==
    /\ [](last.emitted = "Log" => (last.op = "dbus_log" /\ is_acquired))
    /\ []((last.op = "dbus_log" /\ ~is_acquired)
            => (last.emitted = "none" /\ last.ret = <<>> /\ ~last.fault))
    /\ [][last'.op = "dbus_log" => UNCHANGED <<busVars, window_map>>]_vars

C15_Witness ==
    /\ last.op = "dbus_log"
    /\ ~is_acquired
    /\ exported
    /\ names[bus_id] = "lost"

\* C16: GetWindowList() returns exactly the ids registered and not unregistered
\* since, each once, in the insertion order of the underlying map.
C16_ListIsTheRegisteredIds ==
    last.op = "GetWindowList"
        => /\ {last.ret[i] : i \in 1..Len(last.ret)} = registered_ids
           /\ \A w \in registered_ids : Occurrences(last.ret, w) = 1
           /\ last.ret = MapKeys(window_map)

RegistryMethods == {"RegisterWindow", "UnregisterWindow", "GetMenuForWindow",
                    "GetWindowList"}

\* C17: only RegisterWindow and UnregisterWindow may change the registry, and the
\* four registry methods leave bus_id, the timer identifier and the export alone.
C17_Frames ==
    [][/\ last'.op \notin {"RegisterWindow", "UnregisterWindow"}
            => window_map' = window_map
       /\ last'.op \in RegistryMethods
            => UNCHANGED <<bus_id, service_id, exported>>]_vars

C17_Witness ==
    /\ last.op = "release_bus"
    /\ Len(window_map) = 2
    /\ service_id > 0

\* C18: at any time at most one ownership request is outstanding and at most one
\* heartbeat timeout is scheduled.
C18_AtMostOneRequestAndTimer ==
    /\ Cardinality({o \in OwnerIds : names[o] # "none"}) <= 1
    /\ Cardinality(timers) <= 1

C18_Witness ==
    /\ bus_id = 2
    /\ names[2] = "owned"
    /\ timers = {2}

\* C19: every cancellation names something held: no source_remove of a timeout that
\* is not scheduled, no bus_unown_name of a request that is not outstanding.
C19_CancelsOnlyWhatIsHeld ==
    last.stale = 0

\* C20: whenever dbus_log or the heartbeat emits a signal, the object is exported.
C20_EmitsOnlyWhenExported ==
    last.emitted # "none" => exported

====
